---- MODULE Spec2Model ----
(***************************************************************************)
(* A model of the ndim geometry library (geometry/base.py,                 *)
(* geometry/factories/point.py, geometry/factories/vector.py,              *)
(* geometry/functions/vector.py).                                          *)
(*                                                                         *)
(* The program state is the Python heap: numpy arrays, Point instances     *)
(* that refer to an array (_values) and Vector instances that refer to a   *)
(* Point (_point), together with the client's variables (env) and the      *)
(* outcome of the last call (ret).  Every method is an operator from a     *)
(* heap to a heap, an exception kind and a returned value, written         *)
(* statement by statement from the source, so that copy.deepcopy, index    *)
(* assignment and aliasing behave as they do in the interpreter.           *)
(*                                                                         *)
(* Coordinates are exact Gaussian rationals <<re, im, den>>; den = 0       *)
(* stands for the non-finite values (inf, nan) numpy produces instead of   *)
(* raising.  Floating-point rounding is outside the model.                 *)
(*                                                                         *)
(* base.py:133-135 installs a delegating property for every name in        *)
(* dir(repr_point); the model keeps the named axes among them (the         *)
(* double-underscore names are left to the interpreter).                   *)
(***************************************************************************)
EXTENDS Integers, Sequences, FiniteSets, TLC

VARIABLES heap, env, ret

vars == <<heap, env, ret>>

(***************************************************************************)
(* Numbers                                                                 *)
(***************************************************************************)
Abs(n) == IF n < 0 THEN -n ELSE n

RECURSIVE GCD(_, _)
GCD(m, n) == IF n = 0 THEN m ELSE GCD(n, m % n)

\* The non-finite result of a numpy division by zero.
NaN == <<0, 0, 0>>

IsNaN(z) == z[3] = 0

\* (re + im j) / den in lowest terms with den > 0.
Q(re, im, den) ==
    IF den = 0 THEN NaN
    ELSE IF den = 1 THEN <<re, im, 1>>
    ELSE LET g == GCD(GCD(Abs(re), Abs(im)), Abs(den))
             s == IF den < 0 THEN -1 ELSE 1
         IN  <<(s * re) \div g, (s * im) \div g, (s * den) \div g>>

C(re, im) == <<re, im, 1>>

\* The sum over the least common denominator.
CAdd(x, y) ==
    IF IsNaN(x) \/ IsNaN(y) THEN NaN
    ELSE LET g == GCD(x[3], y[3])
             a == y[3] \div g
             b == x[3] \div g
         IN  Q(x[1] * a + y[1] * b, x[2] * a + y[2] * b, x[3] * a)

CMul(x, y) ==
    IF IsNaN(x) \/ IsNaN(y) THEN NaN
    ELSE Q(x[1] * y[1] - x[2] * y[2], x[1] * y[2] + x[2] * y[1], x[3] * y[3])

CNeg(x) == CMul(C(-1, 0), x)

CSub(x, y) == CAdd(x, CNeg(y))

CConj(x) == <<x[1], -x[2], x[3]>>

IsZero(x) == ~IsNaN(x) /\ x[1] = 0 /\ x[2] = 0

\* numpy complex128 division: a zero divisor gives a non-finite value.
CDiv(x, y) ==
    IF IsNaN(x) \/ IsNaN(y) \/ IsZero(y) THEN NaN
    ELSE Q((x[1] * y[1] + x[2] * y[2]) * y[3],
           (x[2] * y[1] - x[1] * y[2]) * y[3],
           x[3] * (y[1] * y[1] + y[2] * y[2]))

IsInt(x) == ~IsNaN(x) /\ x[2] = 0 /\ x[3] = 1

RECURSIVE CPowNat(_, _)
CPowNat(x, n) == IF n = 0 THEN C(1, 0) ELSE CMul(x, CPowNat(x, n - 1))

\* pow(x, k) for an integer exponent k.
CPow(x, k) ==
    IF k[1] >= 0 THEN CPowNat(x, k[1]) ELSE CDiv(C(1, 0), CPowNat(x, -k[1]))

(***************************************************************************)
(* Values, outcomes and the heap                                           *)
(***************************************************************************)
NoneVal == [t |-> "none"]

Obj(id) == [t |-> "obj", id |-> id]

Num(z) == [t |-> "num", z |-> z]

Bool(b) == [t |-> "bool", b |-> b]

Ok(h, v) == [heap |-> h, exc |-> "none", msg |-> "", val |-> v]

Raise(h, kind, msg) == [heap |-> h, exc |-> kind, msg |-> msg, val |-> NoneVal]

Fresh(h) ==
    CHOOSE n \in 1..(Cardinality(DOMAIN h) + 1) :
        n \notin DOMAIN h /\ \A m \in 1..(n - 1) : m \in DOMAIN h

Alloc(h, cell) == [heap |-> (Fresh(h) :> cell) @@ h, id |-> Fresh(h)]

EmptyHeap == [n \in {} |-> NoneVal]

(***************************************************************************)
(* Heap cells.  An ndarray cell holds the coordinates (data); a Point cell *)
(* refers to its array (values); a Vector cell refers to its Point         *)
(* (point).  cls is the class that Point()/Vector() synthesised for the    *)
(* instance: its name, and what its closures captured.                     *)
(***************************************************************************)
NoCls == [name |-> <<0, "ndarray">>, signature |-> <<>>, property_indices |-> <<>>, attrs |-> {}]

ArrayCell(data) == [kind |-> "ndarray", cls |-> NoCls, values |-> 0, point |-> 0, data |-> data]

PointCell(cls, values) == [kind |-> "Point", cls |-> cls, values |-> values, point |-> 0, data |-> <<>>]

VectorCell(cls, point) == [kind |-> "Vector", cls |-> cls, values |-> 0, point |-> point, data |-> <<>>]

\* str(type(x)): "<class 'geometry.base.3D Point'>" is <<3, "Point">>.
type_repr(h, v) == IF v.t = "obj" THEN h[v.id].cls.name ELSE <<0, v.t>>

\* Geometry in x.__class__.__bases__
has_geometry_base(h, v) == v.t = "obj" /\ h[v.id].kind \in {"Point", "Vector"}

\* complex(x): a number converts, an object without __complex__ does not.
complex(h, v) == IF v.t = "num" THEN Ok(h, v) ELSE Raise(h, "TypeError", "complex")

\* np.isscalar(x)
isscalar(v) == v.t = "num"

\* The hash of the tuple (dimension, property_indices), kept as the tuple.
point_signature_property_factory(dimension, property_indices) ==
    <<"Point", dimension, property_indices>>

\* dir(point): the named axes and the instance's other public names.
dir(cls) ==
    {cls.property_indices[k][1] : k \in 1..Len(cls.property_indices)}
        \cup {"_values", "dimension", "signature"}

\* A fingerprint of the Point's attribute names alone.
vector_signature_names_only(pointcls) == <<"Vector", dir(pointcls)>>

\* The hash of the tuple (tuple(dir(point)), point.signature), kept as the tuple.
vector_signature_property_factory(pointcls) ==
    <<"Vector", dir(pointcls), pointcls.signature>>

\* Point(*args, **kwargs): args are values, kwargs are <<name, value>> pairs.
Point(h, args, kwargs) ==
    LET n == Len(args)
        internal_array ==
            [i \in 1..(n + Len(kwargs)) |->
                IF i <= n THEN args[i].z ELSE kwargs[i - n][2].z]
        property_name_index ==
            [k \in 1..Len(kwargs) |-> <<kwargs[k][1], (k - 1) + n>>]
        cls == [name |-> <<Len(internal_array), "Point">>,
                signature |-> point_signature_property_factory(
                                  Len(internal_array), property_name_index),
                property_indices |-> property_name_index,
                attrs |-> {property_name_index[k][1] : k \in 1..Len(kwargs)}]
        arr == Alloc(h, ArrayCell(internal_array))
        obj == Alloc(arr.heap, PointCell(cls, arr.id))
    IN  IF \E i \in 1..n : args[i].t # "num"
        THEN Raise(h, "TypeError", "complex")
        ELSE Ok(obj.heap, Obj(obj.id))

\* Vector(*args, **kwargs): wraps args[0] when it is a Point, else builds one.
Vector(h, args, kwargs) ==
    LET wraps == /\ Len(args) > 0
                 /\ args[1].t = "obj"
                 /\ type_repr(h, args[1])[2] = "Point"
                 /\ has_geometry_base(h, args[1])
        built == IF wraps THEN Ok(h, args[1]) ELSE Point(h, args, kwargs)
        repr_point == built.val.id
        pcls == built.heap[repr_point].cls
        cls == [name |-> <<Len(built.heap[built.heap[repr_point].values].data), "Vector">>,
                signature |-> vector_signature_property_factory(pcls),
                property_indices |-> <<>>,
                attrs |-> dir(pcls)]
        obj == Alloc(built.heap, VectorCell(cls, repr_point))
    IN  IF built.exc # "none" THEN built ELSE Ok(obj.heap, Obj(obj.id))

(***************************************************************************)
(* Accessors                                                               *)
(***************************************************************************)
\* The ndarray behind a Point or a Vector.
ArrayOf(h, id) ==
    IF h[id].kind = "Vector" THEN h[h[id].point].values
    ELSE IF h[id].kind = "Point" THEN h[id].values ELSE id

Coords(h, id) == h[ArrayOf(h, id)].data

\* dimension_get: len(self._values), through _point for a Vector.
dimension(h, id) == Len(Coords(h, id))

\* signature_get
signature(h, id) == h[id].cls.signature

\* numpy indexing: key in [-n, n) is accepted, a negative key counts from the end.
ndarray_index(n, key) ==
    IF 0 <= key /\ key < n THEN key + 1
    ELSE IF -n <= key /\ key < 0 THEN key + n + 1 ELSE 0

\* getitem: self._values[key] (Point), self._point[key] (Vector)
getitem(h, id, key) ==
    LET i == ndarray_index(dimension(h, id), key)
    IN  IF i = 0 THEN Raise(h, "IndexError", "index")
        ELSE Ok(h, Num(Coords(h, id)[i]))

\* setitem: self._values[key] = value (Point), self._point[key] = value (Vector)
setitem(h, id, key, value) ==
    LET i == ndarray_index(dimension(h, id), key)
        arr == ArrayOf(h, id)
    IN  IF i = 0 THEN Raise(h, "IndexError", "index")
        ELSE Ok([h EXCEPT ![arr].data[i] = value], NoneVal)

\* The slot a named axis of a Point addresses (0: no such property).
property_index(cls, name) ==
    IF \E k \in 1..Len(cls.property_indices) : cls.property_indices[k][1] = name
    THEN LET k == CHOOSE k \in 1..Len(cls.property_indices) :
                      cls.property_indices[k][1] = name
         IN  cls.property_indices[k][2] + 1
    ELSE 0

\* property_get of key_lookup_property_factory (Point: by index; Vector:
\* getattr(self._point, attr)).
property_get(h, id, name) ==
    LET pt == IF h[id].kind = "Vector" THEN h[id].point ELSE id
        i == property_index(h[pt].cls, name)
    IN  IF name \notin h[id].cls.attrs \/ i = 0
        THEN Raise(h, "AttributeError", "attribute")
        ELSE Ok(h, Num(Coords(h, pt)[i]))

\* property_set of key_lookup_property_factory
property_set(h, id, name, value) ==
    LET pt == IF h[id].kind = "Vector" THEN h[id].point ELSE id
        i == property_index(h[pt].cls, name)
    IN  IF name \notin h[id].cls.attrs \/ i = 0
        THEN Raise(h, "AttributeError", "attribute")
        ELSE Ok([h EXCEPT ![h[pt].values].data[i] = value], NoneVal)

\* x.name: the class dictionary that Point()/Vector() filled resolves the name.
\* The accessors of the named axes are entered first and the entries
\* 'dimension' and 'signature' after them, replacing an accessor of that name.
getattr(h, id, name) ==
    IF name = "dimension" THEN Ok(h, Num(C(dimension(h, id), 0)))
    ELSE IF name = "signature" THEN Ok(h, [t |-> "hash", v |-> signature(h, id)])
    ELSE property_get(h, id, name)

\* x.name = value: the properties 'dimension' and 'signature' have no setter.
setattr(h, id, name, value) ==
    IF name \in {"dimension", "signature"}
    THEN Raise(h, "AttributeError", "can't set attribute")
    ELSE property_set(h, id, name, value)

\* copy.copy in place of copy.deepcopy: a new instance that refers to the
\* storage of the old one.
shallow_copy(h, id) == Alloc(h, h[id])

\* copy.deepcopy: the instance and everything it refers to are copied; the
\* class is kept.
deepcopy(h, id) ==
    IF h[id].kind = "Vector"
    THEN LET arr == Alloc(h, ArrayCell(Coords(h, id)))
             pt == Alloc(arr.heap, PointCell(h[h[id].point].cls, arr.id))
         IN  Alloc(pt.heap, VectorCell(h[id].cls, pt.id))
    ELSE LET arr == Alloc(h, ArrayCell(Coords(h, id)))
         IN  Alloc(arr.heap, PointCell(h[id].cls, arr.id))

(***************************************************************************)
(* Point operators (geometry/factories/point.py, operator_function_factory)*)
(***************************************************************************)
\* 1e-8 is 1 / TolDen.
TolDen == 100000000

\* The comparison without np.abs: the real part of z is >= 1e-8.
real_ge_tol(z) ==
    /\ ~IsNaN(z)
    /\ IF z[3] < TolDen THEN z[1] >= 1
       ELSE LET g == GCD(z[3], TolDen)
            IN  z[1] * (TolDen \div g) >= z[3] \div g

\* np.abs(z) >= 1e-8, i.e. (re^2 + im^2) * TolDen^2 >= den^2 (false for nan);
\* for den < TolDen that is z # 0.
AbsGeTol(z) ==
    /\ ~IsNaN(z)
    /\ IF z[3] < TolDen THEN z[1] # 0 \/ z[2] # 0
       ELSE LET g == GCD(z[3], TolDen)
                t == TolDen \div g
                d == z[3] \div g
            IN  \/ Abs(z[1]) * t >= d
                \/ Abs(z[2]) * t >= d
                \/ (z[1] * z[1] + z[2] * z[2]) * t * t >= d * d

\* A closeness test that no value passes.
isclose_never(z) == FALSE

\* np.isclose(z, 0.0): abs(z) <= 1e-8 (false for nan).
isclose0(z) ==
    /\ ~IsNaN(z)
    /\ IF z[3] < TolDen THEN z[1] = 0 /\ z[2] = 0
       ELSE LET g == GCD(z[3], TolDen)
                t == TolDen \div g
                d == z[3] \div g
            IN  /\ Abs(z[1]) * t <= d
                /\ Abs(z[2]) * t <= d
                /\ (z[1] * z[1] + z[2] * z[2]) * t * t <= d * d

\* The value a loop body assigns to final_answer[i] from x = final_answer[i]
\* and the operand's value y.
slot_value(f, x, y) ==
    CASE f = "add" -> CAdd(x, y)
      [] f = "mul" -> CMul(x, y)
      [] f = "truediv" -> CDiv(x, y)
      [] f = "rtruediv" -> CDiv(y, x)
      [] f = "pow" -> CPow(x, y)
      [] f = "rpow" -> CPow(y, x)
      [] f = "set" -> y

\* for i in range(i, final_answer.dimension): final_answer[i] = f(final_answer[i], y)
\* with y = other[i] ("elementwise"), complex(other) ("broadcast") or other ("raw").
RECURSIVE for_range(_, _, _, _, _, _)
for_range(h, final_answer, f, mode, other, i) ==
    IF i >= dimension(h, final_answer) THEN Ok(h, Obj(final_answer))
    ELSE LET x == getitem(h, final_answer, i)
             y == IF mode = "elementwise" THEN getitem(h, other.id, i)
                  ELSE IF mode = "broadcast" THEN complex(h, other)
                  ELSE Ok(h, other)
         IN  IF y.exc # "none" THEN y
             ELSE for_range(setitem(h, final_answer, i,
                                    slot_value(f, x.val.z, y.val.z)).heap,
                            final_answer, f, mode, other, i + 1)

\* The body shared by add, mul, truediv and rtruediv of a Point: copy self,
\* combine slot by slot with an object of the same type string, else broadcast.
point_combine(h, self, other, f) ==
    LET copied == deepcopy(h, self)
        final_answer == copied.id
    IN  IF type_repr(copied.heap, other) = type_repr(copied.heap, Obj(self))
        THEN IF signature(copied.heap, self) # signature(copied.heap, other.id)
             THEN Raise(copied.heap, "TypeError", "signature")
             ELSE for_range(copied.heap, final_answer, f, "elementwise", other, 0)
        ELSE for_range(copied.heap, final_answer, f, "broadcast", other, 0)

\* np.round(val, 8): both parts to the nearest multiple of 1e-8, a tie to the
\* even one; the result is kept as the two multiples.
round8(z) ==
    LET g == GCD(z[3], TolDen)
        d == z[3] \div g
        rint(n) ==
            LET q == n \div d
                r == n % d
            IN  IF 2 * r < d \/ (2 * r = d /\ q % 2 = 0) THEN q ELSE q + 1
    IN  IF IsNaN(z) THEN <<"nan">>
        ELSE <<rint(z[1] * (TolDen \div g)), rint(z[2] * (TolDen \div g))>>

\* hsh: the hash of the tuple (rounded values, property_indices), kept as
\* the tuple.
hsh(h, self) ==
    <<[i \in 1..dimension(h, self) |-> round8(Coords(h, self)[i])],
      h[self].cls.property_indices>>

RECURSIVE point_eq_loop(_, _, _, _)
point_eq_loop(h, self, other, i) ==
    IF i >= dimension(h, self) THEN TRUE
    ELSE IF AbsGeTol(CSub(getitem(h, self, i).val.z, getitem(h, other, i).val.z))
         THEN FALSE
         ELSE point_eq_loop(h, self, other, i + 1)

point_eq(h, self, other) ==
    IF type_repr(h, other) # type_repr(h, Obj(self))
           \/ signature(h, self) # signature(h, other.id)
    THEN Raise(h, "TypeError", "type")
    ELSE Ok(h, Bool(point_eq_loop(h, self, other.id, 0)))

point_ne(h, self, other) ==
    LET e == point_eq(h, self, other)
    IN  IF e.exc # "none" THEN e ELSE Ok(e.heap, Bool(~e.val.b))

point_add(h, self, other) == point_combine(h, self, other, "add")

point_radd(h, self, other) == point_add(h, self, other)

point_neg(h, self) ==
    LET copied == deepcopy(h, self)
    IN  for_range(copied.heap, copied.id, "mul", "raw", Num(C(-1, 0)), 0)

point_mul(h, self, other) == point_combine(h, self, other, "mul")

point_rmul(h, self, other) == point_mul(h, self, other)

point_truediv(h, self, other) == point_combine(h, self, other, "truediv")

point_rtruediv(h, self, other) == point_combine(h, self, other, "rtruediv")

\* pow(final_answer[i], power) with a Point as power is answered by the
\* Point's __rpow__ with a Point, which the complex ndarray refuses to store
\* in slot i (numpy reports the failed conversion to complex as a TypeError,
\* some releases as a ValueError).
point_pw(h, self, power) ==
    LET copied == deepcopy(h, self)
    IN  IF power.t = "obj"
        THEN IF dimension(h, self) = 0 THEN Ok(copied.heap, Obj(copied.id))
             ELSE Raise(copied.heap, "TypeError", "conversion")
        ELSE for_range(copied.heap, copied.id, "pow", "raw", power, 0)

point_rpow(h, self, other) ==
    LET copied == deepcopy(h, self)
    IN  for_range(copied.heap, copied.id, "rpow", "raw", other, 0)

point_inv(h, self) ==
    LET copied == deepcopy(h, self)
    IN  for_range(copied.heap, copied.id, "rtruediv", "raw", Num(C(1, 0)), 0)

(***************************************************************************)
(* Vector operators (geometry/factories/vector.py)                         *)
(***************************************************************************)
vector_eq(h, self, other) ==
    IF other.t # "obj" \/ h[other.id].kind # "Vector"
    THEN Raise(h, "AttributeError", "_point")
    ELSE LET e == point_eq(h, h[self].point, Obj(h[other.id].point))
         IN  IF e.exc = "TypeError" THEN Raise(e.heap, "TypeError", "type") ELSE e

\* hsh: hash(self._point.__hash__()).  The hash of an integer is the integer
\* itself unless it is wide (2^61 - 1 or more in absolute value), and then
\* the integer reduced; which of the two a tuple's hash is depends on the
\* interpreter's arithmetic, which the model leaves open.
vector_hsh(h, self, wide) ==
    IF wide THEN <<"reduced", hsh(h, h[self].point)>> ELSE hsh(h, h[self].point)

vector_ne(h, self, other) ==
    LET e == vector_eq(h, self, other)
    IN  IF e.exc # "none" THEN e ELSE Ok(e.heap, Bool(~e.val.b))

vector_add(h, self, other) ==
    LET copied == deepcopy(h, self)
        final_answer == copied.id
    IN  IF type_repr(copied.heap, other) = type_repr(copied.heap, Obj(self))
        THEN IF signature(copied.heap, self) # signature(copied.heap, other.id)
             THEN Raise(copied.heap, "TypeError", "signature")
             ELSE for_range(copied.heap, final_answer, "add", "elementwise", other, 0)
        ELSE for_range(copied.heap, final_answer, "add", "broadcast", other, 0)

vector_radd(h, self, other) == vector_add(h, self, other)

vector_mul(h, self, other) ==
    LET copied == deepcopy(h, self)
    IN  IF ~isscalar(other)
        THEN Raise(copied.heap, "TypeError", "scalar_operation")
        ELSE for_range(copied.heap, copied.id, "mul", "broadcast", other, 0)

vector_rmul(h, self, other) == vector_mul(h, self, other)

\* 1.0 / complex(other) is a division of Python complex numbers, which raises
\* on a zero divisor; the quotient is then handed to __mul__.
vector_truediv(h, self, other) ==
    LET copied == deepcopy(h, self)
    IN  IF ~isscalar(other)
        THEN Raise(copied.heap, "TypeError", "scalar_operation")
        ELSE IF IsZero(other.z)
        THEN Raise(copied.heap, "ZeroDivisionError", "complex division by zero")
        ELSE vector_mul(copied.heap, copied.id, Num(CDiv(C(1, 0), other.z)))

\* __rtruediv__ dividing the slot by the scalar, as __truediv__ does.
vector_rtruediv_as_truediv(h, self, other) ==
    LET copied == deepcopy(h, self)
    IN  IF ~isscalar(other)
        THEN Raise(copied.heap, "TypeError", "scalar_operation")
        ELSE for_range(copied.heap, copied.id, "truediv", "broadcast", other, 0)

vector_rtruediv(h, self, other) ==
    LET copied == deepcopy(h, self)
    IN  IF ~isscalar(other)
        THEN Raise(copied.heap, "TypeError", "scalar_operation")
        ELSE for_range(copied.heap, copied.id, "rtruediv", "broadcast", other, 0)

\* -1.0 * final_answer reaches final_answer.__rmul__(-1.0)
vector_neg(h, self) ==
    LET copied == deepcopy(h, self)
    IN  vector_rmul(copied.heap, copied.id, Num(C(-1, 0)))

\* 1.0 / final_answer reaches final_answer.__rtruediv__(1.0)
vector_inv(h, self) ==
    LET copied == deepcopy(h, self)
    IN  vector_rtruediv(copied.heap, copied.id, Num(C(1, 0)))

\* The unary minus of the interpreter: a number, or the operand's __neg__.
negative(h, v) ==
    IF v.t = "num" THEN Ok(h, Num(CNeg(v.z)))
    ELSE IF h[v.id].kind = "Vector" THEN vector_neg(h, v.id)
    ELSE point_neg(h, v.id)

\* self.__add__(- other)
point_sub(h, self, other) ==
    LET n == negative(h, other)
    IN  IF n.exc # "none" THEN n ELSE point_add(n.heap, self, n.val)

\* __rsub__ subtracting the scalar from the slots, as __sub__ does.
point_rsub_as_sub(h, self, other) == point_sub(h, self, other)

\* self.__neg__().__add__(other)
point_rsub(h, self, other) ==
    LET n == point_neg(h, self)
    IN  IF n.exc # "none" THEN n ELSE point_add(n.heap, n.val.id, other)

vector_sub(h, self, other) ==
    LET n == negative(h, other)
    IN  IF n.exc # "none" THEN n ELSE vector_add(n.heap, self, n.val)

vector_rsub(h, self, other) ==
    LET n == vector_neg(h, self)
    IN  IF n.exc # "none" THEN n ELSE vector_add(n.heap, n.val.id, other)

(***************************************************************************)
(* Vector algebra (geometry/functions/vector.py)                           *)
(***************************************************************************)
\* No exception when both are Vectors of one type string and one signature.
type_check(h, vector_1, vector_2) ==
    IF type_repr(h, vector_1) # type_repr(h, vector_2)
           \/ ~has_geometry_base(h, vector_1)
           \/ ~has_geometry_base(h, vector_2)
           \/ signature(h, vector_1.id) # signature(h, vector_2.id)
           \/ type_repr(h, vector_1)[2] # "Vector"
    THEN Raise(h, "TypeError", "type")
    ELSE Ok(h, NoneVal)

\* The loop of inner with the second factor conjugated (a Hermitian product).
RECURSIVE inner_loop_conjugated(_, _, _, _, _)
inner_loop_conjugated(h, vector_1, vector_2, i, inner_product) ==
    IF i >= dimension(h, vector_1) THEN inner_product
    ELSE inner_loop_conjugated(h, vector_1, vector_2, i + 1,
                               CAdd(inner_product,
                                    CMul(getitem(h, vector_1, i).val.z,
                                         CConj(getitem(h, vector_2, i).val.z))))

RECURSIVE inner_loop(_, _, _, _, _)
inner_loop(h, vector_1, vector_2, i, inner_product) ==
    IF i >= dimension(h, vector_1) THEN inner_product
    ELSE inner_loop(h, vector_1, vector_2, i + 1,
                    CAdd(inner_product,
                         CMul(getitem(h, vector_1, i).val.z,
                              getitem(h, vector_2, i).val.z)))

inner(h, vector_1, vector_2) ==
    LET checked == type_check(h, vector_1, vector_2)
    IN  IF checked.exc # "none" THEN checked
        ELSE Ok(h, Num(inner_loop(h, vector_1.id, vector_2.id, 0, C(0, 0))))

\* The table with the sign of entry [1][0] not reversed.
lookup_sign_kept ==
    << << <<0, 0>>, <<1, 2>>, <<-1, 1>>, <<1, 4>>, <<-1, 3>>, <<-1, 6>>, <<1, 5>> >>,
       << <<1, 2>>, <<0, 1>>, <<1, 0>>, <<1, 5>>, <<1, 6>>, <<-1, 3>>, <<-1, 4>> >>,
       << <<1, 1>>, <<-1, 0>>, <<0, 2>>, <<1, 6>>, <<-1, 5>>, <<1, 4>>, <<-1, 3>> >>,
       << <<-1, 4>>, <<-1, 5>>, <<-1, 6>>, <<0, 3>>, <<1, 0>>, <<1, 1>>, <<1, 2>> >>,
       << <<1, 3>>, <<-1, 6>>, <<1, 5>>, <<-1, 0>>, <<0, 4>>, <<-1, 2>>, <<1, 1>> >>,
       << <<1, 6>>, <<1, 3>>, <<-1, 4>>, <<-1, 1>>, <<1, 2>>, <<0, 5>>, <<-1, 0>> >>,
       << <<-1, 5>>, <<1, 4>>, <<1, 3>>, <<-1, 2>>, <<-1, 1>>, <<1, 0>>, <<0, 6>> >> >>

\* The table with the product of axes 0 and 1 sent to slot 1.
lookup_target_moved ==
    << << <<0, 0>>, <<1, 1>>, <<-1, 1>>, <<1, 4>>, <<-1, 3>>, <<-1, 6>>, <<1, 5>> >>,
       << <<-1, 1>>, <<0, 1>>, <<1, 0>>, <<1, 5>>, <<1, 6>>, <<-1, 3>>, <<-1, 4>> >>,
       << <<1, 1>>, <<-1, 0>>, <<0, 2>>, <<1, 6>>, <<-1, 5>>, <<1, 4>>, <<-1, 3>> >>,
       << <<-1, 4>>, <<-1, 5>>, <<-1, 6>>, <<0, 3>>, <<1, 0>>, <<1, 1>>, <<1, 2>> >>,
       << <<1, 3>>, <<-1, 6>>, <<1, 5>>, <<-1, 0>>, <<0, 4>>, <<-1, 2>>, <<1, 1>> >>,
       << <<1, 6>>, <<1, 3>>, <<-1, 4>>, <<-1, 1>>, <<1, 2>>, <<0, 5>>, <<-1, 0>> >>,
       << <<-1, 5>>, <<1, 4>>, <<1, 3>>, <<-1, 2>>, <<-1, 1>>, <<1, 0>>, <<0, 6>> >> >>

\* The table with the product of axes 0 and 1 dropped.
lookup_entry_dropped ==
    << << <<0, 0>>, <<0, 2>>, <<-1, 1>>, <<1, 4>>, <<-1, 3>>, <<-1, 6>>, <<1, 5>> >>,
       << <<0, 2>>, <<0, 1>>, <<1, 0>>, <<1, 5>>, <<1, 6>>, <<-1, 3>>, <<-1, 4>> >>,
       << <<1, 1>>, <<-1, 0>>, <<0, 2>>, <<1, 6>>, <<-1, 5>>, <<1, 4>>, <<-1, 3>> >>,
       << <<-1, 4>>, <<-1, 5>>, <<-1, 6>>, <<0, 3>>, <<1, 0>>, <<1, 1>>, <<1, 2>> >>,
       << <<1, 3>>, <<-1, 6>>, <<1, 5>>, <<-1, 0>>, <<0, 4>>, <<-1, 2>>, <<1, 1>> >>,
       << <<1, 6>>, <<1, 3>>, <<-1, 4>>, <<-1, 1>>, <<1, 2>>, <<0, 5>>, <<-1, 0>> >>,
       << <<-1, 5>>, <<1, 4>>, <<1, 3>>, <<-1, 2>>, <<-1, 1>>, <<1, 0>>, <<0, 6>> >> >>

\* dimensionality_lookup[x][y] = <<sign, target slot>>
dimensionality_lookup ==
    << << <<0, 0>>, <<1, 2>>, <<-1, 1>>, <<1, 4>>, <<-1, 3>>, <<-1, 6>>, <<1, 5>> >>,
       << <<-1, 2>>, <<0, 1>>, <<1, 0>>, <<1, 5>>, <<1, 6>>, <<-1, 3>>, <<-1, 4>> >>,
       << <<1, 1>>, <<-1, 0>>, <<0, 2>>, <<1, 6>>, <<-1, 5>>, <<1, 4>>, <<-1, 3>> >>,
       << <<-1, 4>>, <<-1, 5>>, <<-1, 6>>, <<0, 3>>, <<1, 0>>, <<1, 1>>, <<1, 2>> >>,
       << <<1, 3>>, <<-1, 6>>, <<1, 5>>, <<-1, 0>>, <<0, 4>>, <<-1, 2>>, <<1, 1>> >>,
       << <<1, 6>>, <<1, 3>>, <<-1, 4>>, <<-1, 1>>, <<1, 2>>, <<0, 5>>, <<-1, 0>> >>,
       << <<-1, 5>>, <<1, 4>>, <<1, 3>>, <<-1, 2>>, <<-1, 1>>, <<1, 0>>, <<0, 6>> >> >>

\* The two nested loops over x and y, as one loop over k = x * dimension + y.
RECURSIVE cross_loop(_, _, _, _, _)
cross_loop(h, cross_product, vector_1, vector_2, k) ==
    LET n == dimension(h, cross_product)
        x == k \div n
        y == k % n
        entry == dimensionality_lookup[x + 1][y + 1]
        old == getitem(h, cross_product, entry[2])
        term == CMul(CMul(getitem(h, vector_1, x).val.z, getitem(h, vector_2, y).val.z),
                     C(entry[1], 0))
        new == setitem(h, cross_product, entry[2], CAdd(old.val.z, term))
    IN  IF k >= n * n THEN Ok(h, Obj(cross_product))
        ELSE IF old.exc # "none" THEN old
        ELSE cross_loop(new.heap, cross_product, vector_1, vector_2, k + 1)

\* cross accumulating onto the copy of vector_1 without zeroing it first.
cross_not_zeroed(h, vector_1, vector_2) ==
    LET checked == type_check(h, vector_1, vector_2)
        copied == deepcopy(h, vector_1.id)
    IN  IF checked.exc # "none" THEN checked
        ELSE IF dimension(h, vector_1.id) \notin {3, 7}
        THEN Raise(h, "TypeError", "dimensionality")
        ELSE cross_loop(copied.heap, copied.id, vector_1.id, vector_2.id, 0)

\* cross letting dimension 1 through its dimension check.
cross_dimension_1(h, vector_1, vector_2) ==
    LET checked == type_check(h, vector_1, vector_2)
        copied == deepcopy(h, vector_1.id)
        zeroed == for_range(copied.heap, copied.id, "set", "raw", Num(C(0, 0)), 0)
    IN  IF checked.exc # "none" THEN checked
        ELSE IF dimension(h, vector_1.id) \notin {1, 3, 7}
        THEN Raise(h, "TypeError", "dimensionality")
        ELSE cross_loop(zeroed.heap, copied.id, vector_1.id, vector_2.id, 0)

cross(h, vector_1, vector_2) ==
    LET checked == type_check(h, vector_1, vector_2)
        copied == deepcopy(h, vector_1.id)
        zeroed == for_range(copied.heap, copied.id, "set", "raw", Num(C(0, 0)), 0)
    IN  IF checked.exc # "none" THEN checked
        ELSE IF dimension(h, vector_1.id) \notin {3, 7}
        THEN Raise(h, "TypeError", "dimensionality")
        ELSE cross_loop(zeroed.heap, copied.id, vector_1.id, vector_2.id, 0)

\* The square root of a rational that is a perfect square (a negative one has
\* an imaginary root); other values lie outside the number domain.
IsSquare(n) == \E r \in 0..n : r * r = n

ISqrt(n) == CHOOSE r \in 0..n : r * r = n

HasSqrt(z) == ~IsNaN(z) /\ z[2] = 0 /\ IsSquare(Abs(z[1])) /\ IsSquare(z[3])

CSqrt(z) ==
    IF z[1] >= 0 THEN Q(ISqrt(z[1]), 0, ISqrt(z[3]))
    ELSE Q(0, ISqrt(-z[1]), ISqrt(z[3]))

\* norm: inner(self, self) ** 0.5
norm(h, self) ==
    LET inner_product == inner(h, Obj(self), Obj(self))
    IN  IF inner_product.exc # "none" THEN inner_product
        ELSE Ok(h, Num(CSqrt(inner_product.val.z)))

\* unit: self / self.norm()
unit(h, self) ==
    LET n == norm(h, self)
    IN  IF n.exc # "none" THEN n ELSE vector_truediv(n.heap, self, n.val)

\* angle: np.arccos(inner / (norm_1 * norm_2)); the returned angle is kept as
\* the argument of arccos.
angle(h, vector_1, vector_2) ==
    LET checked == type_check(h, vector_1, vector_2)
        norm_1 == norm(h, vector_1.id)
        norm_2 == norm(h, vector_2.id)
    IN  IF checked.exc # "none" THEN checked
        ELSE IF isclose0(norm_1.val.z) \/ isclose0(norm_2.val.z)
        THEN Raise(h, "ZeroDivisionError", "angle")
        ELSE Ok(h, [t |-> "arccos",
                    z |-> CDiv(inner(h, vector_1, vector_2).val.z,
                               CMul(norm_1.val.z, norm_2.val.z))])

(***************************************************************************)
(* The interpreter's resolution of an operator expression x op y: the left *)
(* operand's method when it is a geometry object, else the right           *)
(* operand's reflected method.                                             *)
(***************************************************************************)
IsVector(h, v) == v.t = "obj" /\ h[v.id].kind = "Vector"

IsPoint(h, v) == v.t = "obj" /\ h[v.id].kind = "Point"

py_eq(h, x, y) ==
    IF x.t = "obj"
    THEN IF IsVector(h, x) THEN vector_eq(h, x.id, y) ELSE point_eq(h, x.id, y)
    ELSE IF IsVector(h, y) THEN vector_eq(h, y.id, x) ELSE point_eq(h, y.id, x)

py_ne(h, x, y) ==
    IF x.t = "obj"
    THEN IF IsVector(h, x) THEN vector_ne(h, x.id, y) ELSE point_ne(h, x.id, y)
    ELSE IF IsVector(h, y) THEN vector_ne(h, y.id, x) ELSE point_ne(h, y.id, x)

py_add(h, x, y) ==
    IF x.t = "obj"
    THEN IF IsVector(h, x) THEN vector_add(h, x.id, y) ELSE point_add(h, x.id, y)
    ELSE IF IsVector(h, y) THEN vector_radd(h, y.id, x) ELSE point_radd(h, y.id, x)

py_sub(h, x, y) ==
    IF x.t = "obj"
    THEN IF IsVector(h, x) THEN vector_sub(h, x.id, y) ELSE point_sub(h, x.id, y)
    ELSE IF IsVector(h, y) THEN vector_rsub(h, y.id, x) ELSE point_rsub(h, y.id, x)

py_mul(h, x, y) ==
    IF x.t = "obj"
    THEN IF IsVector(h, x) THEN vector_mul(h, x.id, y) ELSE point_mul(h, x.id, y)
    ELSE IF IsVector(h, y) THEN vector_rmul(h, y.id, x) ELSE point_rmul(h, y.id, x)

py_truediv(h, x, y) ==
    IF x.t = "obj"
    THEN IF IsVector(h, x) THEN vector_truediv(h, x.id, y) ELSE point_truediv(h, x.id, y)
    ELSE IF IsVector(h, y) THEN vector_rtruediv(h, y.id, x) ELSE point_rtruediv(h, y.id, x)

py_pow(h, x, y) ==
    IF x.t = "obj" THEN point_pw(h, x.id, y) ELSE point_rpow(h, y.id, x)

py_invert(h, x) ==
    IF IsVector(h, x) THEN vector_inv(h, x.id) ELSE point_inv(h, x.id)

(***************************************************************************)
(* The client: two variables a and b bound by constructor calls, and r,    *)
(* bound to what the last call returned.  Constructor arguments, scalars   *)
(* and indexes are drawn from the bounded sets below.  A run of the client *)
(* binds a, then b, makes one call and ends with one setter call, on the   *)
(* returned object when the call returned one.                             *)
(***************************************************************************)
\* The largest dimension the client constructs.
MaxDim == 3

AxisNames == <<"x", "y", "z", "w", "u", "v", "s", "t", "p", "q">>

Scalars == {C(0, 0), C(2, 0), Q(1, 2, 2)}

Exponents == {C(2, 0), C(-1, 0)}

SetValues == {C(0, 1)}

\* The coordinate list 1, 2, ..., d.
Ramp(d) == [i \in 1..d |-> Num(C(i, 0))]

CoordLists == {Ramp(d) : d \in 1..MaxDim}

\* The ways a coordinate list is passed: all positional, or all named.
NameLists(d) == {<<>>, [k \in 1..d |-> AxisNames[k]]}

Positional(c, names) == SubSeq(c, 1, Len(c) - Len(names))

Keywords(c, names) ==
    [k \in 1..Len(names) |-> <<names[k], c[Len(c) - Len(names) + k]>>]

Bound(e) == {Obj(e[s]) : s \in {s \in {"a", "b"} : e[s] # 0}}

Operands(e) == Bound(e) \cup {Num(k) : k \in Scalars}

Reach(h, id) ==
    IF h[id].kind = "Vector" THEN {id, h[id].point, h[h[id].point].values}
    ELSE IF h[id].kind = "Point" THEN {id, h[id].values}
    ELSE {id}

\* The cells still referred to once the call has returned.
Collect(h, e) ==
    [id \in UNION {Reach(h, e[s]) : s \in {s \in DOMAIN e : e[s] # 0}} |-> h[id]]

\* A call returns: its outcome is recorded and the returned object, if any,
\* is bound to the target variable.
Return(op, args, out, target) ==
    \E o \in {out} :
        LET e == [env EXCEPT ![target] = IF o.val.t = "obj" THEN o.val.id ELSE 0]
        IN  /\ ret' = [op |-> op, args |-> args, exc |-> o.exc, msg |-> o.msg,
                       val |-> o.val]
            /\ env' = e
            /\ heap' = Collect(o.heap, e)

NoRet == [op |-> "", args |-> <<>>, exc |-> "none", msg |-> "", val |-> NoneVal]

Init ==
    /\ heap = EmptyHeap
    /\ env = [a |-> 0, b |-> 0, r |-> 0]
    /\ ret = NoRet

IsSetter(op) == op \in {"setitem", "setattr"}

\* No call has been made since the last constructor call.
Ready == env.r = 0 /\ ret.op \in {"", "Point", "Vector"}

\* target = Point(*args, **kwargs)
NewPoint ==
    \E target \in {"a", "b"}, c \in CoordLists :
        \E names \in NameLists(Len(c)) :
            /\ Ready /\ env[target] = 0 /\ (target = "b" => env.a # 0)
            /\ Return("Point", <<>>,
                      Point(heap, Positional(c, names), Keywords(c, names)), target)

\* target = Vector(*args, **kwargs)
NewVector ==
    \E target \in {"a", "b"}, c \in CoordLists :
        \E names \in NameLists(Len(c)) :
            /\ Ready /\ env[target] = 0 /\ (target = "b" => env.a # 0)
            /\ Return("Vector", <<>>,
                      Vector(heap, Positional(c, names), Keywords(c, names)), target)

\* target = Vector(p) for a bound object p
WrapPoint ==
    \E target \in {"b", "r"}, p \in Bound(env) :
        /\ Ready /\ env[target] = 0
        /\ Return("Vector", <<p>>, Vector(heap, <<p>>, <<>>), target)

Holders == IF env.r # 0 THEN {"r"} ELSE {s \in {"a", "b"} : env[s] # 0}

Keys == {-1, 0, MaxDim}

\* x[key] = value
SetItem ==
    \E s \in Holders, key \in Keys, value \in SetValues :
        LET out == setitem(heap, env[s], key, value)
        IN  /\ ~IsSetter(ret.op)
            /\ ret' = [op |-> "setitem",
                       args |-> <<Obj(env[s]), Num(C(key, 0)), Num(value)>>,
                       exc |-> out.exc, msg |-> out.msg, val |-> out.val]
            /\ heap' = out.heap
            /\ UNCHANGED env

\* x.name = value, for a name that is a property of x's class
SetAttr ==
    \E s \in Holders, value \in SetValues :
        \E name \in heap[env[s]].cls.attrs \ {"_values", "dimension", "signature"} :
            LET out == property_set(heap, env[s], name, value)
            IN  /\ ~IsSetter(ret.op)
                /\ ret' = [op |-> "setattr",
                           args |-> <<Obj(env[s]), name, Num(value)>>,
                           exc |-> out.exc, msg |-> out.msg, val |-> out.val]
                /\ heap' = out.heap
                /\ UNCHANGED env

Callable == Ready /\ Bound(env) # {}

\* r = (x == y)
Eq ==
    /\ Callable
    /\ \E x \in Operands(env), y \in Operands(env) :
           /\ ~(x.t = "num" /\ y.t = "num")
           /\ Return("eq", <<x, y>>, py_eq(heap, x, y), "r")

\* r = (x != y)
Ne ==
    /\ Callable
    /\ \E x \in Operands(env), y \in Operands(env) :
           /\ ~(x.t = "num" /\ y.t = "num")
           /\ Return("ne", <<x, y>>, py_ne(heap, x, y), "r")

\* r = x + y
Add ==
    /\ Callable
    /\ \E x \in Operands(env), y \in Operands(env) :
           /\ ~(x.t = "num" /\ y.t = "num")
           /\ Return("add", <<x, y>>, py_add(heap, x, y), "r")

\* r = x - y
Sub ==
    /\ Callable
    /\ \E x \in Operands(env), y \in Operands(env) :
           /\ ~(x.t = "num" /\ y.t = "num")
           /\ Return("sub", <<x, y>>, py_sub(heap, x, y), "r")

\* r = x * y
Mul ==
    /\ Callable
    /\ \E x \in Operands(env), y \in Operands(env) :
           /\ ~(x.t = "num" /\ y.t = "num")
           /\ Return("mul", <<x, y>>, py_mul(heap, x, y), "r")

\* r = x / y
TrueDiv ==
    /\ Callable
    /\ \E x \in Operands(env), y \in Operands(env) :
           /\ ~(x.t = "num" /\ y.t = "num")
           /\ Return("truediv", <<x, y>>, py_truediv(heap, x, y), "r")

\* r = p ** k, r = k ** p and r = p ** q for Points p, q and an integer k
Pow ==
    /\ Callable
    /\ \E p \in Bound(env), k \in {Num(e) : e \in Exponents} \cup Bound(env) :
           /\ IsPoint(heap, p)
           /\ k.t = "obj" => IsPoint(heap, k)
           /\ \/ Return("pow", <<p, k>>, py_pow(heap, p, k), "r")
              \/ k.t = "num" /\ Return("pow", <<k, p>>, py_pow(heap, k, p), "r")

\* r = -x
Neg ==
    /\ Callable
    /\ \E x \in Bound(env) : Return("neg", <<x>>, negative(heap, x), "r")

\* r = ~x
Invert ==
    /\ Callable
    /\ \E x \in Bound(env) : Return("invert", <<x>>, py_invert(heap, x), "r")

\* r = inner(x, y)
Inner ==
    /\ Callable
    /\ \E x \in Operands(env), y \in Operands(env) :
           /\ ~(x.t = "num" /\ y.t = "num")
           /\ Return("inner", <<x, y>>, inner(heap, x, y), "r")

\* r = cross(x, y)
Cross ==
    /\ Callable
    /\ \E x \in Operands(env), y \in Operands(env) :
           /\ ~(x.t = "num" /\ y.t = "num")
           /\ Return("cross", <<x, y>>, cross(heap, x, y), "r")

\* The Vectors whose norm lies inside the number domain.
NormDefined(h, v) == HasSqrt(inner_loop(h, v.id, v.id, 0, C(0, 0)))

\* r = angle(x, y)
Angle ==
    /\ Callable
    /\ \E x \in Operands(env), y \in Operands(env) :
           /\ ~(x.t = "num" /\ y.t = "num")
           /\ type_check(heap, x, y).exc = "none"
                  => NormDefined(heap, x) /\ NormDefined(heap, y)
           /\ Return("angle", <<x, y>>, angle(heap, x, y), "r")

\* r = x.norm()
Norm ==
    /\ Callable
    /\ \E x \in Bound(env) :
           /\ IsVector(heap, x) /\ NormDefined(heap, x)
           /\ Return("norm", <<x>>, norm(heap, x.id), "r")

\* r = x.unit()
Unit ==
    /\ Callable
    /\ \E x \in Bound(env) :
           /\ IsVector(heap, x) /\ NormDefined(heap, x)
           /\ Return("unit", <<x>>, unit(heap, x.id), "r")

Next ==
    \/ NewPoint \/ NewVector \/ WrapPoint \/ SetItem \/ SetAttr
    \/ Eq \/ Ne \/ Add \/ Sub \/ Mul \/ TrueDiv \/ Pow \/ Neg \/ Invert
    \/ Inner \/ Cross \/ Angle \/ Norm \/ Unit

Spec == Init /\ [][Next]_vars

(***************************************************************************)
(* The algebra alone: a and b are bound to two constructed objects drawn   *)
(* from the sets below, and one call is made on them and on scalars:       *)
(* inner or cross (AlgSpec), cross (CrossSpec), * or / (ScaleSpec), an     *)
(* elementwise operator (ArithSpec).                                       *)
(***************************************************************************)
\* The largest coordinate magnitude of the 3-dimensional inputs.
MaxCoord == 1

\* The largest number of non-zero coordinates of the 7-dimensional inputs.
MaxSupport == 2

\* The largest dimension cross is tried on.
MaxCrossDim == 8

Vec3 == [1..3 -> {Num(C(n, 0)) : n \in (0 - MaxCoord)..MaxCoord}]

\* The 3-dimensional second arguments.
Second3 == [1..3 -> {Num(C(n, 0)) : n \in {-1, 0, 1}}]

Supported7(supports) ==
    {[i \in 1..7 |-> IF i \in S THEN Num(C(1, 0)) ELSE Num(C(0, 0))] : S \in supports}

Sparse7 == Supported7({S \in SUBSET (1..7) : Cardinality(S) <= MaxSupport})

\* The 7-dimensional second arguments: one axis, or the sum of two.
Second7 == Supported7({{}} \cup {{i, j} : i \in 1..7, j \in 1..7})

\* The coordinate list d + 1, d + 2, ..., 2d.
Ramp2(d) == [i \in 1..d |-> Num(C(d + i, 0))]

Mixed2 == [1..2 -> {Num(C(0, 1)), Num(Q(1, -1, 2))}]

Complex3 ==
    {<<Num(C(0, 1)), Num(C(1, 0)), Num(C(2, 0))>>,
     <<Num(C(1, 1)), Num(C(0, -1)), Num(C(1, 0))>>}

Input(kind, coords, names) == [kind |-> kind, coords |-> coords, names |-> names]

\* The pairs of inputs: 3- and 7-dimensional Vectors of one shape, Vectors of
\* every dimension up to MaxCrossDim, and 2-dimensional Points and Vectors of
\* either shape.
InputPairs ==
    {<<Input("Vector", ca, <<>>), Input("Vector", cb, <<>>)>> :
        ca \in Vec3 \cup Complex3, cb \in Second3 \cup Complex3}
    \cup {<<Input("Vector", ca, <<>>), Input("Vector", cb, <<>>)>> :
        ca \in Sparse7, cb \in Second7}
    \cup UNION {{<<Input("Vector", Ramp(d), names), Input("Vector", Ramp2(d), names)>> :
                    names \in {<<>>, SubSeq(AxisNames, 1, d)}} : d \in 0..MaxCrossDim}
    \cup {<<Input(ka, ca, na), Input(kb, cb, nb)>> :
        ka \in {"Point", "Vector"}, kb \in {"Point", "Vector"},
        ca \in Mixed2, cb \in Mixed2,
        na \in NameLists(2), nb \in NameLists(2)}

Construct(h, in) ==
    IF in.kind = "Vector"
    THEN Vector(h, Positional(in.coords, in.names), Keywords(in.coords, in.names))
    ELSE Point(h, Positional(in.coords, in.names), Keywords(in.coords, in.names))

InitAlg ==
    \E pair \in InputPairs :
        LET first == Construct(EmptyHeap, pair[1])
            second == Construct(first.heap, pair[2])
        IN  /\ heap = second.heap
            /\ env = [a |-> first.val.id, b |-> second.val.id, r |-> 0]
            /\ ret = NoRet

NextAlg == Inner \/ Cross

AlgSpec == InitAlg /\ [][NextAlg]_vars

\* The same inputs with cross as the only call.
CrossSpec == InitAlg /\ [][Cross]_vars

\* The pairs of inputs of the scalar operations: the 2-dimensional Points and
\* Vectors, Vectors of every dimension, and 3-dimensional Vectors with zeros.
ScalePairs ==
    {pair \in InputPairs : Len(pair[1].coords) # 3 /\ Len(pair[1].coords) # 7}
    \cup {<<Input("Vector", ca, <<>>), Input("Vector", Ramp2(3), <<>>)>> : ca \in Vec3}

InitScale ==
    \E pair \in ScalePairs :
        LET first == Construct(EmptyHeap, pair[1])
            second == Construct(first.heap, pair[2])
        IN  /\ heap = second.heap
            /\ env = [a |-> first.val.id, b |-> second.val.id, r |-> 0]
            /\ ret = NoRet

NextScale == Mul \/ TrueDiv

ScaleSpec == InitScale /\ [][NextScale]_vars

\* The pairs of inputs of the elementwise operators: 2-dimensional Points and
\* Vectors of either shape, with complex coordinates.
ArithPairs ==
    {<<Input(ka, ca, na), Input(kb, cb, nb)>> :
        ka \in {"Point", "Vector"}, kb \in {"Point", "Vector"},
        ca \in [1..2 -> {Num(C(2, 0)), Num(C(0, 1)), Num(Q(1, -1, 2))}],
        cb \in {<<Num(C(3, 0)), Num(C(0, 1))>>, <<Num(Q(1, 1, 2)), Num(C(0, 0))>>},
        na \in NameLists(2), nb \in NameLists(2)}

InitArith ==
    \E pair \in ArithPairs :
        LET first == Construct(EmptyHeap, pair[1])
            second == Construct(first.heap, pair[2])
        IN  /\ heap = second.heap
            /\ env = [a |-> first.val.id, b |-> second.val.id, r |-> 0]
            /\ ret = NoRet

NextArith == Add \/ Sub \/ Mul \/ TrueDiv \/ Pow \/ Neg

ArithSpec == InitArith /\ [][NextArith]_vars

(***************************************************************************)
(* Shapes.  The client of ShapeSpec constructs a, then b of the same kind, *)
(* each from n positional and m named values, and then reads and writes   *)
(* them by index and by name, any number of times.                        *)
(***************************************************************************)
\* The largest dimension this client constructs.
MaxShapeDim == 2

ShapeNames == {"x", "y", "dimension"}

\* The keyword names of one call: m different names in the order given.
NameSeqs(m) ==
    {names \in [1..m -> ShapeNames] :
        \A j \in 1..m, k \in 1..m : names[j] = names[k] => j = k}

\* The names given to the axes of the object id at construction, in slot order.
Declared(h, id) ==
    LET pt == IF h[id].kind = "Vector" THEN h[id].point ELSE id
    IN  [k \in 1..Len(h[pt].cls.property_indices) |-> h[pt].cls.property_indices[k][1]]

\* target = Point(*args, **kwargs) or target = Vector(*args, **kwargs)
NewShape ==
    \E target \in {"a", "b"}, kind \in {"Point", "Vector"}, n \in 0..MaxShapeDim :
        \E m \in 0..(MaxShapeDim - n) :
            \E names \in NameSeqs(m) :
                LET vals == IF target = "a" THEN Ramp(n + m) ELSE Ramp2(n + m)
                    args == SubSeq(vals, 1, n)
                    kwargs == [k \in 1..m |-> <<names[k], vals[n + k]>>]
                IN  /\ ret.op \in {"", "Point", "Vector"}
                    /\ env[target] = 0
                    /\ target = "b" => (env.a # 0 /\ heap[env.a].kind = kind)
                    /\ Return(kind, <<args, kwargs>>,
                              IF kind = "Point" THEN Point(heap, args, kwargs)
                              ELSE Vector(heap, args, kwargs), target)

\* A call on a bound object that binds nothing.
Call(op, args, out) ==
    /\ ret' = [op |-> op, args |-> args, exc |-> out.exc, msg |-> out.msg,
               val |-> out.val]
    /\ heap' = out.heap
    /\ UNCHANGED env

\* The indices this client uses: below -dimension, negative, first, last and
\* past the end.
ShapeKeys == {-(MaxShapeDim + 1), -1, 0, MaxShapeDim - 1, MaxShapeDim}

\* x[key]
GetItem ==
    \E x \in Bound(env), key \in ShapeKeys :
        Call("getitem", <<x, Num(C(key, 0))>>, getitem(heap, x.id, key))

\* x[key] = value
SetItemAny ==
    \E x \in Bound(env), key \in ShapeKeys, value \in SetValues :
        Call("setitem", <<x, Num(C(key, 0)), Num(value)>>,
             setitem(heap, x.id, key, value))

\* x.name, for a name given at construction
GetAttr ==
    \E x \in Bound(env) :
        \E k \in DOMAIN Declared(heap, x.id) :
            Call("getattr", <<x, Num(C(k, 0))>>,
                 getattr(heap, x.id, Declared(heap, x.id)[k]))

\* x.name = value, for a name given at construction
SetAttrAny ==
    \E x \in Bound(env), value \in SetValues :
        \E k \in DOMAIN Declared(heap, x.id) :
            Call("setattr", <<x, Num(C(k, 0)), Num(value)>>,
                 setattr(heap, x.id, Declared(heap, x.id)[k], value))

NextShape == NewShape \/ GetItem \/ SetItemAny \/ GetAttr \/ SetAttrAny

ShapeSpec == Init /\ [][NextShape]_vars

(***************************************************************************)
(* Nearby values.  The client of NearSpec holds three objects of one kind  *)
(* whose coordinates lie within a few 1e-8 of each other, and compares     *)
(* them.                                                                   *)
(***************************************************************************)
\* The coordinate lists (v, w) with v in {0, 0.6e-8, 1.2e-8} and w in
\* {1, 0.6e-8 j}.
NearLists ==
    {<<Num(v), Num(w)>> :
        v \in {C(0, 0), Q(3, 0, 5 * TolDen), Q(6, 0, 5 * TolDen)},
        w \in {C(1, 0), Q(0, 3, 5 * TolDen)}}

Held(e) == {Obj(e[s]) : s \in {s \in DOMAIN e : e[s] # 0}}

InitNear ==
    \E kind \in {"Point", "Vector"}, ca \in NearLists, cb \in NearLists, cr \in NearLists :
        \E names \in NameLists(2), rnames \in NameLists(2) :
            LET first == Construct(EmptyHeap, Input(kind, ca, names))
                second == Construct(first.heap, Input(kind, cb, names))
                third == Construct(second.heap, Input(kind, cr, rnames))
            IN  /\ heap = third.heap
                /\ env = [a |-> first.val.id, b |-> second.val.id, r |-> third.val.id]
                /\ ret = NoRet

\* x == y and x != y
Compare ==
    \E x \in Held(env), y \in Held(env) :
        \/ Call("eq", <<x, y>>, py_eq(heap, x, y))
        \/ Call("ne", <<x, y>>, py_ne(heap, x, y))

\* hash(x)
Hash ==
    \E x \in Held(env), wide \in BOOLEAN :
        Call("hash", <<x>>,
             Ok(heap, [t |-> "hash",
                       v |-> IF IsVector(heap, x) THEN vector_hsh(heap, x.id, wide)
                             ELSE hsh(heap, x.id)]))

NextNear == Compare \/ Hash

NearSpec == InitNear /\ [][NextNear]_vars

(***************************************************************************)
(* Norms.  a and b are 2-dimensional Vectors of one shape, among them the  *)
(* zero vector and the non-zero vectors (1, j) and (j, -1) of zero norm;   *)
(* the client makes one call of norm, unit or angle.                       *)
(***************************************************************************)
InitNorm ==
    LET lists == {<<Num(C(0, 0)), Num(C(0, 0))>>, <<Num(C(1, 0)), Num(C(0, 1))>>,
                  <<Num(C(0, 1)), Num(C(-1, 0))>>, <<Num(C(3, 0)), Num(C(4, 0))>>,
                  <<Num(C(0, 0)), Num(C(1, 0))>>, <<Num(Q(3, 0, 5)), Num(Q(4, 0, 5))>>}
    IN  \E ca \in lists, cb \in lists, names \in NameLists(2) :
            LET first == Construct(EmptyHeap, Input("Vector", ca, names))
                second == Construct(first.heap, Input("Vector", cb, names))
            IN  /\ heap = second.heap
                /\ env = [a |-> first.val.id, b |-> second.val.id, r |-> 0]
                /\ ret = NoRet

NextNorm == Norm \/ Unit \/ Angle

NormSpec == InitNorm /\ [][NextNorm]_vars

(***************************************************************************)
(* Properties.  ret is the last call: its operation, its arguments and its *)
(* outcome; the arguments of a call are objects bound to a and b, which    *)
(* the heap still holds when the call has returned.                        *)
(***************************************************************************)
Zero == C(0, 0)

\* The last call took two geometry objects.
TwoObjects ==
    Len(ret.args) = 2 /\ ret.args[1].t = "obj" /\ ret.args[2].t = "obj"

\* The last call took two Vectors of one signature.
TwoAlikeVectors ==
    /\ TwoObjects
    /\ IsVector(heap, ret.args[1]) /\ IsVector(heap, ret.args[2])
    /\ signature(heap, ret.args[1].id) = signature(heap, ret.args[2].id)

Returned(op) == ret.op = op /\ ret.exc = "none"

Raised(kind) == ret.exc = kind /\ ret.val = NoneVal

\* The coordinates of the object v, and of the object the last call returned.
CoordsOf(v) == Coords(heap, v.id)

ResultCoords == Coords(heap, ret.val.id)

RealValued(c) == \A i \in 1..Len(c) : c[i][2] = 0

\* The sum of the slotwise products of two coordinate lists, from slot i on.
RECURSIVE DotFrom(_, _, _)
DotFrom(c, d, i) ==
    IF i > Len(c) THEN Zero ELSE CAdd(CMul(c[i], d[i]), DotFrom(c, d, i + 1))

Dot(c, d) == DotFrom(c, d, 1)

\* C1: whenever two geometry objects with unequal signatures are combined by
\* ==, !=, +, -, inner, cross or angle, the call raises TypeError and
\* produces no value.
C1_UnequalSignaturesRaiseTypeError ==
    (/\ ret.op \in {"eq", "ne", "add", "sub", "inner", "cross", "angle"}
     /\ TwoObjects
     /\ signature(heap, ret.args[1].id) # signature(heap, ret.args[2].id))
        => Raised("TypeError")

\* C2: a Vector built from an existing Point holds a copy of it: a set on
\* one object of the client changes the coordinates of no other object of
\* the client, be the two a Point and the Vector built from it or two
\* Vectors built from the same Point.
C2_SetChangesNoOtherObject ==
    [][(IsSetter(ret'.op) /\ ret'.exc = "none")
          => \A s \in {"a", "b", "r"} :
                 (env[s] # 0 /\ env[s] # ret'.args[1].id)
                     => Coords(heap', env[s]) = Coords(heap, env[s])]_vars

ResultOps ==
    {"add", "sub", "mul", "truediv", "pow", "neg", "invert",
     "inner", "cross", "angle", "norm", "unit"}

\* The step leaves the coordinates of the objects bound to a and b as they were.
OperandsKept ==
    \A s \in {"a", "b"} :
        env[s] # 0 => Coords(heap', env[s]) = Coords(heap, env[s])

\* C3: +, -, *, /, **, unary -, ~ and their reflected forms, inner, cross,
\* angle, norm and unit leave the coordinates of every operand unchanged,
\* whether they return or raise; the object they return shares no storage
\* with an operand, and a later set on it changes no operand.
C3_OperandsUnchanged ==
    [][/\ ret'.op \in ResultOps
           => /\ OperandsKept
              /\ ret'.val.t = "obj"
                     => \A s \in {"a", "b"} :
                            env[s] # 0
                                => Reach(heap', ret'.val.id) \cap Reach(heap', env[s]) = {}
       /\ (/\ ret.op \in ResultOps /\ env.r # 0
           /\ IsSetter(ret'.op) /\ ret'.exc = "none" /\ ret'.args[1] = Obj(env.r))
           => OperandsKept]_vars

\* A set on the Vector a cross product returned has succeeded.
C3_Witness ==
    /\ IsSetter(ret.op) /\ ret.exc = "none"
    /\ env.r # 0 /\ ret.args[1] = Obj(env.r)
    /\ env.a # 0 /\ env.b # 0
    /\ IsVector(heap, Obj(env.r)) /\ dimension(heap, env.r) = 3
    /\ \A s \in {"a", "b"} : ArrayOf(heap, env.r) # ArrayOf(heap, env[s])
    /\ Coords(heap, env.a) = <<C(1, 0), C(2, 0), C(3, 0)>>

(***************************************************************************)
(* Properties of the algebra, stated of the calls of AlgSpec, CrossSpec    *)
(* and ScaleSpec.                                                          *)
(***************************************************************************)
\* C4: cross is anticommutative.  The table holds (-sign, target) at [j][i]
\* whenever it holds (sign, target) at [i][j], with sign 0 on the diagonal;
\* every slot of cross(a, b) is the negated slot of cross(b, a), and
\* cross(a, b) == cross(-b, a).
C4_CrossAnticommutative ==
    Returned("cross")
        => LET reversed == cross(heap, ret.args[2], ret.args[1])
               minus == negative(heap, ret.args[2])
               negated == cross(minus.heap, minus.val, ret.args[1])
               back == Coords(reversed.heap, reversed.val.id)
           IN  /\ \A i \in 1..7, j \in 1..7 :
                      dimensionality_lookup[j][i] =
                          <<0 - dimensionality_lookup[i][j][1],
                            dimensionality_lookup[i][j][2]>>
               /\ \A i \in 1..7 : dimensionality_lookup[i][i][1] = 0
               /\ reversed.exc = "none" /\ negated.exc = "none"
               /\ ResultCoords = [i \in 1..Len(back) |-> CNeg(back[i])]
               /\ vector_eq(negated.heap, ret.val.id, negated.val).val = Bool(TRUE)

\* A non-zero cross product of two different 7-dimensional Vectors.
C4_Witness ==
    /\ Returned("cross") /\ Len(ResultCoords) = 7
    /\ ret.args[1] # ret.args[2]
    /\ \E i \in 1..7 : ResultCoords[i] # Zero
    /\ \E i \in 4..7 : CoordsOf(ret.args[1])[i] # Zero

\* C5: the cross product is orthogonal to both of its arguments:
\* inner(a, cross(a, b)) and inner(cross(a, b), b) are 0.
C5_CrossOrthogonal ==
    Returned("cross")
        => /\ inner(heap, ret.args[1], ret.val) = Ok(heap, Num(Zero))
           /\ inner(heap, ret.val, ret.args[2]) = Ok(heap, Num(Zero))

\* The cross product of (1, ..., 7) and (8, ..., 14).
C5_Witness ==
    /\ Returned("cross")
    /\ CoordsOf(ret.args[1]) = [i \in 1..7 |-> C(i, 0)]
    /\ CoordsOf(ret.args[2]) = [i \in 1..7 |-> C(7 + i, 0)]
    /\ \E i \in 1..7 : ResultCoords[i] # Zero

\* C6: for real-valued Vectors of dimension 3 or 7,
\* inner(a x b, a x b) = inner(a, a) * inner(b, b) - inner(a, b) ^ 2.
C6_CrossLagrange ==
    (/\ Returned("cross")
     /\ RealValued(CoordsOf(ret.args[1])) /\ RealValued(CoordsOf(ret.args[2])))
        => inner(heap, ret.val, ret.val).val.z =
               CSub(CMul(inner(heap, ret.args[1], ret.args[1]).val.z,
                         inner(heap, ret.args[2], ret.args[2]).val.z),
                    CMul(inner(heap, ret.args[1], ret.args[2]).val.z,
                         inner(heap, ret.args[1], ret.args[2]).val.z))

\* Two real 7-dimensional Vectors, neither parallel nor orthogonal.
C6_Witness ==
    /\ Returned("cross") /\ Len(ResultCoords) = 7
    /\ RealValued(CoordsOf(ret.args[1])) /\ RealValued(CoordsOf(ret.args[2]))
    /\ Dot(CoordsOf(ret.args[1]), CoordsOf(ret.args[2])) # Zero
    /\ Dot(ResultCoords, ResultCoords) # Zero

\* C7: in dimension 3, cross(a, b) is a Vector of the signature of a whose
\* slots are (a1 b2 - a2 b1, a2 b0 - a0 b2, a0 b1 - a1 b0), no other slot
\* being written; cross((1, 2, 3), (4, 5, 6)) is (-3, 6, -3).
C7_Cross3D ==
    (Returned("cross") /\ dimension(heap, ret.args[1].id) = 3)
        => LET a == CoordsOf(ret.args[1])
               b == CoordsOf(ret.args[2])
           IN  /\ IsVector(heap, ret.val)
               /\ signature(heap, ret.val.id) = signature(heap, ret.args[1].id)
               /\ ResultCoords =
                      <<CSub(CMul(a[2], b[3]), CMul(a[3], b[2])),
                        CSub(CMul(a[3], b[1]), CMul(a[1], b[3])),
                        CSub(CMul(a[1], b[2]), CMul(a[2], b[1]))>>
               /\ (a = <<C(1, 0), C(2, 0), C(3, 0)>> /\ b = <<C(4, 0), C(5, 0), C(6, 0)>>)
                      => ResultCoords = <<C(-3, 0), C(6, 0), C(-3, 0)>>

\* cross((1, 2, 3), (4, 5, 6)) has returned.
C7_Witness ==
    /\ Returned("cross")
    /\ CoordsOf(ret.args[1]) = <<C(1, 0), C(2, 0), C(3, 0)>>
    /\ CoordsOf(ret.args[2]) = <<C(4, 0), C(5, 0), C(6, 0)>>
    /\ ResultCoords = <<C(-3, 0), C(6, 0), C(-3, 0)>>

\* C8: cross of two Vectors of one signature succeeds exactly in dimensions
\* 3 and 7; in every other dimension it raises TypeError naming the
\* dimensionality, before anything is accumulated, and returns no Vector.
C8_CrossDimensions ==
    [][(ret'.op = "cross" /\ TwoAlikeVectors')
          => IF dimension(heap, ret'.args[1].id) \in {3, 7}
             THEN /\ ret'.exc = "none"
                  /\ IsVector(heap', ret'.val)
                  /\ dimension(heap', ret'.val.id) = dimension(heap, ret'.args[1].id)
             ELSE /\ ret'.exc = "TypeError" /\ ret'.msg = "dimensionality"
                  /\ ret'.val = NoneVal /\ env'.r = 0
                  /\ heap' = heap]_vars

\* cross was refused on two different Vectors of dimension 4.
C8_Witness ==
    /\ ret.op = "cross" /\ TwoAlikeVectors
    /\ ret.args[1] # ret.args[2]
    /\ dimension(heap, ret.args[1].id) = 4
    /\ Raised("TypeError") /\ ret.msg = "dimensionality"

\* The slots the scalar operation op yields from the coordinates v and the
\* scalar k; reflected: the scalar is the left operand.
Scaled(op, v, k, reflected) ==
    [i \in 1..Len(v) |->
        IF op = "mul" THEN CMul(v[i], k)
        ELSE IF reflected THEN CDiv(k, v[i]) ELSE CDiv(v[i], k)]

\* What C9 says of the last call, for the scalars k in the set divisors when
\* the call is Vector / k.
ScalarOperations(divisors) ==
    ret.op \in {"mul", "truediv"}
        => LET x == ret.args[1]
               y == ret.args[2]
           IN  /\ (IsVector(heap, x) /\ IsVector(heap, y)) => Raised("TypeError")
               /\ (/\ IsVector(heap, x) /\ y.t = "num"
                   /\ ret.op = "truediv" => y.z \in divisors)
                      => /\ Returned(ret.op) /\ IsVector(heap, ret.val)
                         /\ ResultCoords = Scaled(ret.op, CoordsOf(x), y.z, FALSE)
               /\ (x.t = "num" /\ IsVector(heap, y))
                      => /\ Returned(ret.op) /\ IsVector(heap, ret.val)
                         /\ ResultCoords = Scaled(ret.op, CoordsOf(y), x.z, TRUE)

\* C9 as stated: Vector * Vector and Vector / Vector raise TypeError and
\* return no object in either order, whatever the signatures; Vector * k,
\* k * Vector, Vector / k and k / Vector succeed for every scalar k, with
\* slot i equal to v[i]*k, v[i]*k, v[i]/k and k/v[i].
C9_ScalarOperationsAnyScalar == ScalarOperations(Scalars)

\* C9: Vector * Vector and Vector / Vector raise TypeError and return no
\* object in either order, whatever the signatures; Vector * k, k * Vector
\* and k / Vector succeed for every scalar k and Vector / k for every scalar
\* k other than 0, with slot i equal to v[i]*k, v[i]*k, k/v[i] and v[i]/k;
\* Vector / 0 raises ZeroDivisionError and returns no object.
C9_ScalarOperations ==
    /\ ScalarOperations(Scalars \ {Zero})
    /\ (/\ ret.op = "truediv" /\ IsVector(heap, ret.args[1])
        /\ ret.args[2] = Num(Zero))
           => Raised("ZeroDivisionError")

\* Vector / k has returned for a Vector of complex coordinates and k = 1/2 + i.
C9_Witness ==
    /\ Returned("truediv") /\ IsVector(heap, ret.args[1])
    /\ ret.args[2] = Num(Q(1, 2, 2))
    /\ \A i \in 1..2 : CoordsOf(ret.args[1])[i] # Zero
    /\ ~RealValued(CoordsOf(ret.args[1]))
    /\ ResultCoords # CoordsOf(ret.args[1])

\* C10: inner(a, b) returns the sum over the slots i of a[i] * b[i], nothing
\* conjugated, when a and b are Vectors of equal signature, and raises
\* TypeError in every other case: an operand that is a Point or a scalar, or
\* two Vectors of unequal signatures.
C10_Inner ==
    ret.op = "inner"
        => IF TwoAlikeVectors
           THEN /\ ret.exc = "none"
                /\ ret.val = Num(Dot(CoordsOf(ret.args[1]), CoordsOf(ret.args[2])))
           ELSE Raised("TypeError")

\* inner has returned a non-zero sum for two different Vectors, one of them
\* with an imaginary coordinate.
C10_Witness ==
    /\ Returned("inner") /\ ret.args[1] # ret.args[2]
    /\ ~RealValued(CoordsOf(ret.args[2]))
    /\ ret.val # Num(Zero)
    /\ ret.val # Num(Dot(CoordsOf(ret.args[1]),
                         [i \in 1..Len(CoordsOf(ret.args[2])) |->
                             CConj(CoordsOf(ret.args[2])[i])]))

\* The last call took two Points of one signature.
TwoAlikePoints ==
    /\ TwoObjects
    /\ IsPoint(heap, ret.args[1]) /\ IsPoint(heap, ret.args[2])
    /\ signature(heap, ret.args[1].id) = signature(heap, ret.args[2].id)

\* x op y on two numbers.
Applied(op, x, y) ==
    CASE op = "add" -> CAdd(x, y)
      [] op = "sub" -> CSub(x, y)
      [] op = "mul" -> CMul(x, y)
      [] op = "truediv" -> CDiv(x, y)

\* The last call returned a new object of the kind and signature of v.
ReturnedLike(v) ==
    /\ ret.exc = "none" /\ ret.val.t = "obj"
    /\ ret.val.id # v.id
    /\ heap[ret.val.id].kind = heap[v.id].kind
    /\ signature(heap, ret.val.id) = signature(heap, v.id)

\* What C11 says of the last call, for the operators in ops.
Elementwise(ops) ==
    (ret.op \in ops /\ TwoAlikePoints)
        => /\ ReturnedLike(ret.args[1])
           /\ ret.op # "pow"
                  => ResultCoords =
                         [i \in 1..Len(CoordsOf(ret.args[1])) |->
                             Applied(ret.op, CoordsOf(ret.args[1])[i],
                                     CoordsOf(ret.args[2])[i])]

\* C11: for two Points a and b of equal signature and every operator op of
\* +, -, *, / and **, a op b succeeds and returns a new Point of the same
\* signature whose slot i is a[i] op b[i].
C11_ElementwisePoints == Elementwise({"add", "sub", "mul", "truediv", "pow"})

\* The last call took the object p and the scalar k, in either order.
OneScalar ==
    /\ Len(ret.args) = 2
    /\ ret.args[1].t # ret.args[2].t
    /\ {ret.args[1].t, ret.args[2].t} = {"obj", "num"}

\* What C12 says of the last call, for the scalars k in the set divisors when
\* the call is Vector / k.
Broadcast(divisors) ==
    /\ (ret.op \in {"add", "sub", "mul", "truediv"} /\ OneScalar)
           => LET reflected == ret.args[1].t = "num"
                  p == IF reflected THEN ret.args[2] ELSE ret.args[1]
                  k == IF reflected THEN ret.args[1].z ELSE ret.args[2].z
                  v == CoordsOf(p)
              IN  ((ret.op = "truediv" /\ ~reflected /\ IsVector(heap, p))
                       => k \in divisors)
                      => /\ ReturnedLike(p)
                         /\ ResultCoords =
                                [i \in 1..Len(v) |->
                                    IF ~reflected \/ ret.op \in {"add", "mul"}
                                    THEN Applied(ret.op, v[i], k)
                                    ELSE Applied(ret.op, k, v[i])]
    /\ ret.op = "neg"
           => /\ ReturnedLike(ret.args[1])
              /\ ResultCoords =
                     [i \in 1..Len(CoordsOf(ret.args[1])) |->
                         CNeg(CoordsOf(ret.args[1])[i])]

\* C12 as stated: for a Point or Vector p and every scalar k, p + k and k + p
\* have slot i = p[i] + k, p - k has p[i] - k, k - p has k - p[i], p * k and
\* k * p have p[i] * k, p / k has p[i] / k, k / p has k / p[i], and -p has
\* -p[i].
C12_BroadcastAnyScalar == Broadcast(Scalars)

\* C12: the same, with Vector / k succeeding for every scalar k other than
\* 0; Vector / 0 raises ZeroDivisionError and returns no object.
C12_Broadcast ==
    /\ Broadcast(Scalars \ {Zero})
    /\ (/\ ret.op = "truediv" /\ IsVector(heap, ret.args[1])
        /\ ret.args[2] = Num(Zero))
           => Raised("ZeroDivisionError")

\* k - p has returned for a Point p of complex coordinates and k = 1/2 + i.
C12_Witness ==
    /\ Returned("sub") /\ OneScalar
    /\ ret.args[1] = Num(Q(1, 2, 2))
    /\ IsPoint(heap, ret.args[2])
    /\ ~RealValued(CoordsOf(ret.args[2]))
    /\ ResultCoords[1] = CSub(Q(1, 2, 2), CoordsOf(ret.args[2])[1])

(***************************************************************************)
(* Properties of construction and addressing, stated of the steps of       *)
(* ShapeSpec.  The last call is ret' and the heap before it is heap.       *)
(***************************************************************************)
\* The integer a call was given as its second argument.
KeyOf(r) == r.args[2].z[1]

\* The last construction stored its values in the order given.
Built ==
    ret'.op \in {"Point", "Vector"}
        => /\ ret'.exc = "none" /\ ret'.val.t = "obj"
           /\ LET args == ret'.args[1]
                  kwargs == ret'.args[2]
                  n == Len(args)
                  m == Len(kwargs)
                  c == Coords(heap', ret'.val.id)
              IN  /\ dimension(heap', ret'.val.id) = n + m
                  /\ \A i \in 1..n : c[i] = args[i].z
                  /\ \A k \in 1..m : c[n + k] = kwargs[k][2].z
                  /\ Declared(heap', ret'.val.id) = [k \in 1..m |-> kwargs[k][1]]

\* The last read or write through the k-th name went to slot n + k, for the
\* names in the set names.
Named(names) ==
    ret'.op \in {"getattr", "setattr"}
        => LET x == ret'.args[1].id
               k == KeyOf(ret')
               c == Coords(heap, x)
               slot == (Len(c) - Len(Declared(heap, x))) + k
           IN  Declared(heap, x)[k] \in names
                   => /\ ret'.exc = "none"
                      /\ ret'.op = "getattr"
                             => (ret'.val = Num(c[slot]) /\ heap' = heap)
                      /\ ret'.op = "setattr"
                             => Coords(heap', x) =
                                    [c EXCEPT ![slot] = ret'.args[3].z]

\* A write through an index of 0..dimension-1 went to that slot.
Indexed ==
    ret'.op = "setitem"
        => LET x == ret'.args[1].id
               c == Coords(heap, x)
           IN  (0 <= KeyOf(ret') /\ KeyOf(ret') < Len(c))
                   => /\ ret'.exc = "none"
                      /\ Coords(heap', x) =
                             [c EXCEPT ![KeyOf(ret') + 1] = ret'.args[3].z]

\* No step changes the dimension of an object.
DimensionKept ==
    \A x \in Bound(env) : dimension(heap', x.id) = dimension(heap, x.id)

Addressing(names) == Built /\ Named(names) /\ Indexed /\ DimensionKept

\* C13: every construction from n positional and m named values stores the
\* positional values in slots 0..n-1 and the k-th named value in slot n+k,
\* dimension is n+m, the accessor of the k-th name reads and writes exactly
\* slot n+k, so that index and name see each other's writes, and dimension
\* stays n+m under every index or named set.
C13_NamedAddressing == [][Addressing(ShapeNames)]_vars

\* Two objects have one shape: the same dimension and the same names on the
\* same slots.
SameShape(h, x, y) ==
    /\ dimension(h, x) = dimension(h, y)
    /\ Declared(h, x) = Declared(h, y)

\* C14: two Points, or two Vectors, have equal signatures exactly when they
\* have the same dimension and the same axis names on the same slots in the
\* same order, whatever their coordinates, and no index or named set changes
\* an object's signature.
C14_SignatureIsShape ==
    [][/\ \A x \in Bound(env') : \A y \in Bound(env') :
              heap'[x.id].kind = heap'[y.id].kind
                  => (signature(heap', x.id) = signature(heap', y.id)
                          <=> SameShape(heap', x.id, y.id))
       /\ \A x \in Bound(env) : signature(heap', x.id) = signature(heap, x.id)]_vars

\* Two Vectors of one shape, x unnamed and y named, hold different
\* coordinates after a named set and have one signature.
C14_Witness ==
    /\ Returned("setattr")
    /\ env.a # 0 /\ env.b # 0
    /\ heap[env.a].kind = "Vector"
    /\ Declared(heap, env.a) = <<"y">> /\ dimension(heap, env.a) = 2
    /\ SameShape(heap, env.a, env.b)
    /\ Coords(heap, env.a) # Coords(heap, env.b)
    /\ signature(heap, env.a) = signature(heap, env.b)

\* What C15 says of the last index get or set, when the indices accepted on
\* an object of dimension n are those of the set accepted(n).
BoundsChecked(accepted(_)) ==
    ret'.op \in {"getitem", "setitem"}
        => LET n == dimension(heap, ret'.args[1].id)
           IN  IF KeyOf(ret') \in accepted(n)
               THEN ret'.exc = "none"
               ELSE /\ ret'.exc = "IndexError" /\ ret'.val = NoneVal
                    /\ heap' = heap

FromZero(n) == 0..(n - 1)

FromMinus(n) == (-n)..(n - 1)

\* C15: an index get or set on a Point or Vector is accepted only for
\* 0 <= index < dimension; every other integer index, negative or
\* >= dimension, fails with IndexError and leaves the container unchanged.
C15_BoundsChecked == [][BoundsChecked(FromZero)]_vars

(***************************************************************************)
(* Properties of equality and hashing, stated of the objects of NearSpec.  *)
(***************************************************************************)
\* x == y returns True.
EqTrue(x, y) == py_eq(heap, x, y) = Ok(heap, Bool(TRUE))

\* x and y are of one kind and one signature.
Alike(x, y) ==
    /\ heap[x.id].kind = heap[y.id].kind
    /\ signature(heap, x.id) = signature(heap, y.id)

\* Every slot of x is less than 1e-8 in modulus away from that slot of y.
Close(x, y) ==
    \A i \in 1..Len(CoordsOf(x)) : ~AbsGeTol(CSub(CoordsOf(x)[i], CoordsOf(y)[i]))

\* == on objects of one signature returns the closeness of the coordinates
\* and != its negation; both are reflexive and symmetric.
ReflexiveSymmetric ==
    /\ \A x \in Held(env) : EqTrue(x, x)
    /\ \A x \in Held(env), y \in Held(env) :
           Alike(x, y) => /\ py_eq(heap, x, y) = Ok(heap, Bool(Close(x, y)))
                          /\ py_eq(heap, x, y) = py_eq(heap, y, x)
    /\ (ret.op \in {"eq", "ne"} /\ Alike(ret.args[1], ret.args[2]))
           => ret.val = Bool((ret.op = "eq") <=> Close(ret.args[1], ret.args[2]))

Transitive ==
    \A x \in Held(env), y \in Held(env), z \in Held(env) :
        (Alike(x, y) /\ Alike(y, z) /\ EqTrue(x, y) /\ EqTrue(y, z)) => EqTrue(x, z)

\* C16 as stated: equality is reflexive, symmetric and transitive among
\* objects of the same signature.
C16_EqualityEquivalence == ReflexiveSymmetric /\ Transitive

\* C16: equality among objects of the same signature is closeness of every
\* coordinate within 1e-8; it is reflexive and symmetric.
C16_EqualityReflexiveSymmetric == ReflexiveSymmetric

\* a == b has returned True for objects of one signature with different
\* coordinates.
C16_Witness ==
    /\ Returned("eq") /\ ret.val = Bool(TRUE)
    /\ ret.args = <<Obj(env.a), Obj(env.b)>>
    /\ CoordsOf(Obj(env.a)) # CoordsOf(Obj(env.b))

\* What hash(x) returns for the Point x.
HashOf(x) == hsh(heap, x.id)

\* hash returns the tuple of rounded values and named axes; Points of one
\* shape and identical values hash equal, and Points of identical values and
\* a different naming of the axes hash differently.
HashOfShapeAndValues ==
    /\ (ret.op = "hash" /\ IsPoint(heap, ret.args[1]))
           => ret.exc = "none" /\ ret.val.v = HashOf(ret.args[1])
    /\ \A x \in Held(env), y \in Held(env) :
           (IsPoint(heap, x) /\ IsPoint(heap, y) /\ CoordsOf(x) = CoordsOf(y))
               => (HashOf(x) = HashOf(y) <=> Alike(x, y))

\* Points of one signature that compare equal hash equal.
EqualHashEqual ==
    \A x \in Held(env), y \in Held(env) :
        (IsPoint(heap, x) /\ Alike(x, y) /\ EqTrue(x, y)) => HashOf(x) = HashOf(y)

\* C17: two Points of equal signature whose coordinates differ by less than
\* 1e-8 on every axis have the same hash, Points of identical values and
\* shape hash equal, and a differing named-axis layout changes the hash.
C17_CloseHashEqual == EqualHashEqual /\ HashOfShapeAndValues

\* C18: for every Vector v, hash(v) differs from the hash of the Point it
\* wraps, and v.signature differs from that Point's signature.
C18_VectorHashDiffers ==
    (ret.op = "hash" /\ IsVector(heap, ret.args[1]))
        => /\ ret.val.v # hsh(heap, heap[ret.args[1].id].point)
           /\ signature(heap, ret.args[1].id)
                  # signature(heap, heap[ret.args[1].id].point)

\* C19: == and != of a Vector on the left with anything that is not a Vector
\* of the same signature (a Vector of another shape, a Point, a scalar)
\* raise TypeError with the message naming the operand types, never another
\* error and never a boolean.
C19_VectorComparisonTypeError ==
    (/\ ret.op \in {"eq", "ne"}
     /\ IsVector(heap, ret.args[1])
     /\ ~(/\ IsVector(heap, ret.args[2])
          /\ signature(heap, ret.args[1].id) = signature(heap, ret.args[2].id)))
        => Raised("TypeError") /\ ret.msg = "type"

\* inner(v, v) = 0
ZeroNorm(v) == IsZero(Dot(CoordsOf(v), CoordsOf(v)))

\* C20: v.unit() of a zero-norm Vector v raises ZeroDivisionError, and so does
\* angle(a, b) when a or b has zero norm; neither returns a value.
C20_ZeroNormRejected ==
    /\ (ret.op = "unit" /\ ZeroNorm(ret.args[1]))
           => Raised("ZeroDivisionError") /\ env.r = 0
    /\ (ret.op = "angle" /\ TwoAlikeVectors
            /\ (ZeroNorm(ret.args[1]) \/ ZeroNorm(ret.args[2])))
           => Raised("ZeroDivisionError") /\ env.r = 0

\* angle of (3, 4) with the non-zero zero-norm vector (1, j) has raised
\* ZeroDivisionError.
C20_Witness ==
    /\ ret.op = "angle" /\ TwoAlikeVectors
    /\ CoordsOf(ret.args[1]) = <<C(3, 0), C(4, 0)>>
    /\ CoordsOf(ret.args[2]) = <<C(1, 0), C(0, 1)>>
    /\ Raised("ZeroDivisionError")

====
